---- MODULE Spec2Model ----
(***************************************************************************)
(* Hour-availability and training-reschedule coordination of               *)
(* vaintrub/go-ddd-template.                                               *)
(*                                                                         *)
(* Both repositories are modelled at the granularity of SQL statements:    *)
(* every UpdateHour and every UpdateTraining call runs in its own          *)
(* PostgreSQL transaction (default isolation level READ COMMITTED,         *)
(* pgxpool.Begin without options), and the statements of concurrent calls  *)
(* interleave.  A plain SELECT reads the committed rows and takes no lock; *)
(* INSERT and UPDATE take a row lock that is held until the transaction    *)
(* ends.  Spec is the trainer context (trainer_hours), SpecRace its calls  *)
(* racing for one hour, SpecTraining the trainings context                 *)
(* (trainings_trainings), SpecVisibility its UpdateTraining calls on a     *)
(* freshly stored training, SpecAggregate the Training aggregate alone,    *)
(* SpecUsers the balance column of users_users, SpecApp the schedule and   *)
(* reschedule command handlers with their calls to the users and trainer   *)
(* services, SpecTest the hours-availability component test, SpecSameRow   *)
(* (SpecSameRowFair with weak fairness of every caller's next statement)   *)
(* the trainer commands of concurrent callers on one hour, and SpecBatch   *)
(* batch commands that list two hours in either order.                     *)
(***************************************************************************)
EXTENDS Integers, FiniteSets, Sequences, Bags, TLC

(* ---------------------------- bounds ----------------------------------- *)
NumCalls == 2
NumTimes == 2
\* number of UpdateBalance calls received by the users service
MaxBalanceCalls == 3

\* every command is handled by a caller (request goroutine) of its own
Procs == 1..NumCalls
Times == 1..NumTimes

(* ------------------------ hour domain ---------------------------------- *)
Available == "Available"
NotAvailable == "NotAvailable"
TrainingScheduled == "TrainingScheduled"
Availabilities == {Available, NotAvailable, TrainingScheduled}

\* Availability.String(): the text stored in trainer_hours.availability
AvailabilityString(a) ==
    CASE a = Available -> "available"
      [] a = NotAvailable -> "not_available"
      [] a = TrainingScheduled -> "training_scheduled"

DbAvailabilities == {AvailabilityString(a) : a \in Availabilities}

\* hour.NewAvailabilityFromString
NewAvailabilityFromString(s) ==
    CASE s = "available" -> Available
      [] s = "not_available" -> NotAvailable
      [] s = "training_scheduled" -> TrainingScheduled

\* Hour.MakeAvailable: fails if a training is scheduled
MakeAvailable(a) ==
    IF a = TrainingScheduled
    THEN [err |-> "ErrTrainingScheduled", availability |-> a]
    ELSE [err |-> "nil", availability |-> Available]

\* Hour.MakeNotAvailable: fails if a training is scheduled
MakeNotAvailable(a) ==
    IF a = TrainingScheduled
    THEN [err |-> "ErrTrainingScheduled", availability |-> a]
    ELSE [err |-> "nil", availability |-> NotAvailable]

\* Hour.ScheduleTraining: fails if the hour is not available
ScheduleTraining(a) ==
    IF a # Available
    THEN [err |-> "ErrHourNotAvailable", availability |-> a]
    ELSE [err |-> "nil", availability |-> TrainingScheduled]

\* Hour.CancelTraining: fails if no training is scheduled
CancelTraining(a) ==
    IF a # TrainingScheduled
    THEN [err |-> "ErrNoTrainingScheduled", availability |-> a]
    ELSE [err |-> "nil", availability |-> Available]

(* ----------------- trainer command handlers ---------------------------- *)
CmdMakeHoursAvailable == "MakeHoursAvailable"
CmdMakeHoursUnavailable == "MakeHoursUnavailable"
CmdScheduleTraining == "ScheduleTraining"
CmdCancelTraining == "CancelTraining"

\* the closure makeHoursAvailableHandler.Handle passes to UpdateHour
makeHoursAvailable_updateFn(a) == MakeAvailable(a)

\* the closure makeHoursUnavailableHandler.Handle passes to UpdateHour
makeHoursUnavailable_updateFn(a) == MakeNotAvailable(a)

scheduleTraining_updateFn_cancel(a) == CancelTraining(a)

\* the closure scheduleTrainingHandler.Handle (trainer) passes to UpdateHour
scheduleTraining_updateFn(a) == ScheduleTraining(a)

\* the closure cancelTrainingHandler.Handle passes to UpdateHour
cancelTraining_updateFn(a) == CancelTraining(a)

updateFn(kind, a) ==
    CASE kind = CmdMakeHoursAvailable -> makeHoursAvailable_updateFn(a)
      [] kind = CmdMakeHoursUnavailable -> makeHoursUnavailable_updateFn(a)
      [] kind = CmdScheduleTraining -> scheduleTraining_updateFn(a)
      [] kind = CmdCancelTraining -> cancelTraining_updateFn(a)

\* the commands on one hour: ScheduleTraining and CancelTraining carry one
\* hour, MakeHoursAvailable and MakeHoursUnavailable a list of hours (here a
\* list of one hour; every hour of a list is updated by an UpdateHour call of
\* its own)
HourCommands ==
    {[kind |-> k, hours |-> <<t>>] :
        k \in {CmdMakeHoursAvailable, CmdMakeHoursUnavailable,
                CmdScheduleTraining, CmdCancelTraining},
        t \in Times}

NoCommand == [kind |-> "none", hours |-> <<>>]

(* ----------------------- error kinds ----------------------------------- *)
\* ErrorType of a SlugError
ErrorTypeUnknown == "Unknown"
ErrorTypeAuthorization == "Authorization"
ErrorTypeIncorrectInput == "IncorrectInput"

\* errors.NewIncorrectInputError
NewIncorrectInputError(error, slug) ==
    [error |-> error, slug |-> slug, errorType |-> ErrorTypeIncorrectInput]

\* errors.NewSlugError
NewSlugError(error, slug) ==
    [error |-> error, slug |-> slug, errorType |-> ErrorTypeUnknown]

\* the error Handle returns when its UpdateHour call has returned err: every
\* handler wraps whatever UpdateHour returns in one SlugError of its own
HandleError(kind, err) ==
    CASE kind = CmdMakeHoursAvailable ->
            NewIncorrectInputError(err, "make-hours-available-failed")
      [] kind = CmdMakeHoursUnavailable ->
            NewIncorrectInputError(err, "make-hours-unavailable-failed")
      [] kind = CmdScheduleTraining ->
            NewSlugError(err, "unable-to-update-availability")
      [] kind = CmdCancelTraining ->
            NewIncorrectInputError(err, "cancel-training-failed")

(* ------------------------------ state ---------------------------------- *)
VARIABLES
    trainer_hours,  \* committed rows of table trainer_hours
    pc,             \* position of each caller inside Handle / UpdateHour
    cmd,            \* the command each caller is handling
    idx,            \* index of the hour of cmd being updated
    dbHour,         \* the row UpdateHour holds in dbHour (set of 0 or 1 rows)
    updatedHour,    \* the availability returned by updateFn
    ins,            \* uncommitted INSERTs of each caller's transaction
    upd,            \* uncommitted UPDATEs of each caller's transaction
    result          \* outcome of each caller's last command

hourVars == <<trainer_hours, pc, cmd, idx, dbHour, updatedHour,
              ins, upd, result>>

VARIABLES
    trainings_trainings, \* committed rows of table trainings_trainings
    trPc,           \* position of each caller inside UpdateTraining
    trKind,         \* the command whose closure the caller's UpdateTraining runs
    trUser,         \* the user the caller's UpdateTraining was called with
    updatedTr,      \* the training returned by updateFn (set of 0 or 1)
    trUpd,          \* uncommitted UPDATE of each caller's transaction
    trResult        \* outcome of each caller's command

trainingVars == <<trainings_trainings, trPc, trKind, trUser, updatedTr, trUpd, trResult>>

\* the Training aggregate in memory and the last method called on it
VARIABLES
    training,
    call

aggVars == <<training, call>>

\* the users context and the command handlers of the trainings context that
\* call the other contexts
VARIABLES
    users_users,    \* balance column of table users_users, per user id
    balanceLog,     \* the UpdateBalance calls made so far, with their outcome
    appPc,          \* position of each caller inside scheduleTrainingHandler.Handle
    appTr,          \* the training the handler has built (set of 0 or 1)
    appResult,      \* outcome of each caller's ScheduleTraining command
    rpc             \* the calls each caller's command has made to the users
                    \* and trainer services, with their outcome

appVars == <<users_users, balanceLog, appPc, appTr, appResult, rpc>>

\* the client of the component test of the trainer service
VARIABLES
    seen            \* per command the client has sent: the command's outcome
                    \* and the hour the client found in the available hours

clientVars == <<seen>>

vars == <<hourVars, trainingVars, aggVars, appVars, clientVars>>

\* what a step of the trainer context, and of UpdateTraining, leaves alone
outsideHour == <<trainingVars, aggVars, appVars, clientVars>>
outsideTraining == <<hourVars, aggVars, appVars, clientVars>>

hourTime_reversed(p) == cmd[p].hours[Len(cmd[p].hours) + 1 - idx[p]]

hourTime(p) == cmd[p].hours[idx[p]]

\* rows of trainer_hours: id is a fresh UUID, here (caller, index of the hour
\* in the caller's command), or (0, time) for the rows that exist at the start
HourIds == (0..NumCalls) \X (1..NumTimes)

HourRows == [id : HourIds, hour_time : Times, availability : DbAvailabilities]

InitialRow(t, a) == [id |-> <<0, t>>, hour_time |-> t, availability |-> AvailabilityString(a)]

\* at the start each hour has no row yet or a row in any availability
InitialTables ==
    {UNION {f[t] : t \in Times} :
        f \in {g \in [Times -> {{}} \cup {{InitialRow(t, a)} : t \in Times, a \in Availabilities}] :
                  \A t \in Times : \A r \in g[t] : r.hour_time = t}}

(* ----------------------- SQL statements -------------------------------- *)
GetHourByTime_none(rows, t) == {}

\* GetHourByTime: SELECT * FROM trainer_hours WHERE hour_time = $1
GetHourByTime(rows, t) == {r \in rows : r.hour_time = t}

hour_time_unique_off(rows, t) == FALSE

\* hour_time ... NOT NULL UNIQUE: an insert of t violates the constraint
hour_time_unique(rows, t) == \E r \in rows : r.hour_time = t

InsertWaits_never(p, t) == FALSE

\* an INSERT of t waits while another transaction holds an uncommitted
\* insert of the same key
InsertWaits(p, t) == \E q \in Procs \ {p} : \E r \in ins[q] : r.hour_time = t

UpdateWaits_anyWrite(p, id) ==
    \E q \in Procs \ {p} : upd[q] # {} \/ ins[q] # {}

\* an UPDATE of row id waits while another transaction holds the row lock
UpdateWaits(p, id) == \E q \in Procs \ {p} : \E u \in upd[q] : u.id = id

UpdateHourAvailability_all(rows, id, a) ==
    {[r EXCEPT !.availability = a] : r \in rows}

\* UpdateHourAvailability: UPDATE trainer_hours SET availability = $2 WHERE id = $1
UpdateHourAvailability(rows, id, a) ==
    {IF r.id = id THEN [r EXCEPT !.availability = a] ELSE r : r \in rows}

\* tx.Commit: the transaction's writes become the committed rows
CommitRows(rows, p) ==
    LET updated == IF upd[p] = {} THEN rows
                   ELSE LET u == CHOOSE u \in upd[p] : TRUE
                        IN UpdateHourAvailability(rows, u.id, u.availability)
    IN updated \cup ins[p]

Rollback_keepInsert(rows, p) == rows \cup ins[p]

\* tx.Rollback: the transaction's writes are discarded
Rollback(rows, p) == rows

(* --------------------------- Init -------------------------------------- *)
HourInit ==
    /\ trainer_hours \in InitialTables
    /\ pc = [p \in Procs |-> "new"]
    /\ cmd = [p \in Procs |-> NoCommand]
    /\ idx = [p \in Procs |-> 0]
    /\ dbHour = [p \in Procs |-> {}]
    /\ updatedHour = [p \in Procs |-> NotAvailable]
    /\ ins = [p \in Procs |-> {}]
    /\ upd = [p \in Procs |-> {}]
    /\ result = [p \in Procs |-> "none"]

\* the hour the racing ScheduleTraining calls are for
RaceHour == 1

(* ------------------------- UpdateHour ---------------------------------- *)
Return_keepLocks(p, res) ==
    /\ trainer_hours' = trainer_hours
    /\ pc' = [pc EXCEPT ![p] = "done"]
    /\ result' = [result EXCEPT ![p] = res]
    /\ cmd' = [cmd EXCEPT ![p] = NoCommand]
    /\ idx' = [idx EXCEPT ![p] = 0]
    /\ UNCHANGED <<ins, upd, dbHour, updatedHour>>

\* return err from UpdateHour: the deferred tx.Rollback discards the
\* transaction's writes, and the handler returns the error; the command and
\* the locals go out of scope
Return(p, res) ==
    /\ trainer_hours' = Rollback(trainer_hours, p)
    /\ pc' = [pc EXCEPT ![p] = "done"]
    /\ result' = [result EXCEPT ![p] = res]
    /\ cmd' = [cmd EXCEPT ![p] = NoCommand]
    /\ idx' = [idx EXCEPT ![p] = 0]
    /\ ins' = [ins EXCEPT ![p] = {}]
    /\ upd' = [upd EXCEPT ![p] = {}]
    /\ dbHour' = [dbHour EXCEPT ![p] = {}]
    /\ updatedHour' = [updatedHour EXCEPT ![p] = NotAvailable]

\* Handle: a caller receives a command; UpdateHour begins a transaction for
\* the first hour.  Callers are interchangeable, so they start in the order
\* of their numbers.
Call(p, c) ==
    /\ pc[p] = "new"
    /\ \A q \in Procs : q < p => pc[q] # "new"
    /\ cmd' = [cmd EXCEPT ![p] = c]
    /\ idx' = [idx EXCEPT ![p] = 1]
    /\ pc' = [pc EXCEPT ![p] = "begun"]
    /\ UNCHANGED <<trainer_hours, dbHour, updatedHour, ins, upd, result>>
    /\ UNCHANGED outsideHour

Handle(p) == \E c \in HourCommands : Call(p, c)

\* the ScheduleTraining handler called for hour RaceHour
ScheduleRaceHour(p) ==
    Call(p, [kind |-> CmdScheduleTraining, hours |-> <<RaceHour>>])

\* currentHour := unmarshal(dbHour); updatedHour, err := updateFn(currentHour)
\* (no statement is sent to the database in between, so this runs as part of
\* the step that produced dbHour)
ApplyUpdateFn(p, row, inserted) ==
    LET currentHour == NewAvailabilityFromString(row.availability)
        out == updateFn(cmd[p].kind, currentHour)
    IN IF out.err # "nil"
       THEN /\ Return(p, out.err)
       ELSE /\ dbHour' = [dbHour EXCEPT ![p] = {row}]
            /\ updatedHour' = [updatedHour EXCEPT ![p] = out.availability]
            /\ ins' = [ins EXCEPT ![p] = inserted]
            /\ pc' = [pc EXCEPT ![p] = "applied"]
            /\ UNCHANGED <<trainer_hours, upd, result, cmd, idx>>

\* queries.GetHourByTime(ctx, hourTime); when the row is found, updateFn
UpdateHour_GetHourByTime(p) ==
    /\ pc[p] = "begun"
    /\ LET found == GetHourByTime(trainer_hours, hourTime(p))
       IN IF found # {}
          THEN ApplyUpdateFn(p, CHOOSE r \in found : TRUE, {})
          ELSE /\ pc' = [pc EXCEPT ![p] = "notfound"]
               /\ UNCHANGED <<trainer_hours, cmd, idx, dbHour, updatedHour,
                              ins, upd, result>>
    /\ UNCHANGED outsideHour

\* factory.NewNotAvailableHour + queries.CreateHour, then updateFn on the
\* inserted row
UpdateHour_CreateHour(p) ==
    /\ pc[p] = "notfound"
    /\ ~InsertWaits(p, hourTime(p))
    /\ IF hour_time_unique(trainer_hours, hourTime(p))
       THEN Return(p, "ErrConflict")
       ELSE LET row == [id |-> <<p, idx[p]>>,
                        hour_time |-> hourTime(p),
                        availability |-> AvailabilityString(NotAvailable)]
            IN ApplyUpdateFn(p, row, {row})
    /\ UNCHANGED outsideHour

\* queries.UpdateHourAvailability(ctx, dbHour.ID, updatedHour.Availability().String())
UpdateHour_UpdateHourAvailability(p) ==
    /\ pc[p] = "applied"
    /\ LET row == CHOOSE r \in dbHour[p] : TRUE
           a == AvailabilityString(updatedHour[p])
       IN /\ ~UpdateWaits(p, row.id)
          /\ IF row \in ins[p]
             THEN /\ ins' = [ins EXCEPT ![p] = UpdateHourAvailability(@, row.id, a)]
                  /\ upd' = upd
             ELSE /\ upd' = [upd EXCEPT ![p] = {[id |-> row.id, availability |-> a]}]
                  /\ ins' = ins
    /\ pc' = [pc EXCEPT ![p] = "updated"]
    /\ UNCHANGED <<trainer_hours, cmd, idx, dbHour, updatedHour, result>>
    /\ UNCHANGED outsideHour

\* tx.Commit, then the handler's loop goes on to the next hour or returns nil
UpdateHour_Commit(p) ==
    /\ pc[p] = "updated"
    /\ trainer_hours' = CommitRows(trainer_hours, p)
    /\ ins' = [ins EXCEPT ![p] = {}]
    /\ upd' = [upd EXCEPT ![p] = {}]
    /\ dbHour' = [dbHour EXCEPT ![p] = {}]
    /\ updatedHour' = [updatedHour EXCEPT ![p] = NotAvailable]
    /\ IF idx[p] < Len(cmd[p].hours)
       THEN /\ idx' = [idx EXCEPT ![p] = @ + 1]
            /\ pc' = [pc EXCEPT ![p] = "begun"]
            /\ UNCHANGED <<cmd, result>>
       ELSE /\ idx' = [idx EXCEPT ![p] = 0]
            /\ cmd' = [cmd EXCEPT ![p] = NoCommand]
            /\ pc' = [pc EXCEPT ![p] = "done"]
            /\ result' = [result EXCEPT ![p] = "ok"]
    /\ UNCHANGED outsideHour

\* a statement of the transaction (or Begin, or Commit) fails with a storage
\* or connectivity error
UpdateHour_Fail(p) ==
    /\ pc[p] \in {"begun", "notfound", "applied", "updated"}
    /\ Return(p, "ErrConnectionFailed")
    /\ UNCHANGED outsideHour

HourNext ==
    \E p \in Procs :
        \/ Handle(p)
        \/ UpdateHour_GetHourByTime(p)
        \/ UpdateHour_CreateHour(p)
        \/ UpdateHour_UpdateHourAvailability(p)
        \/ UpdateHour_Commit(p)
        \/ UpdateHour_Fail(p)

(* ======================= trainings context ============================= *)
(* UpdateTraining runs in a transaction of its own as well: GetTraining is *)
(* a plain SELECT, UpdateTraining an UPDATE that takes the row lock.       *)

(* ----------------------- training domain ------------------------------- *)
Trainer == "trainer"
Attendee == "attendee"
\* UserType{}
ZeroUserType == ""
UserTypes == {Trainer, Attendee}

\* time.Time{}
ZeroTime == 0

\* notes are kept by their length
MaxNotesLen == 1000
NotesInputs == {0, MaxNotesLen, MaxNotesLen + 1}

TrainingUUID == "training-1"
OwnerUUID == "attendee-1"

Users == {[uuid |-> OwnerUUID, type |-> Attendee],
          [uuid |-> "attendee-2", type |-> Attendee],
          [uuid |-> "trainer-1", type |-> Trainer]}

\* Training.UpdateNotes: notes longer than the limit are rejected
UpdateNotes(tr, notes) ==
    IF notes > MaxNotesLen
    THEN [err |-> "ErrNoteTooLong", tr |-> tr]
    ELSE [err |-> "nil", tr |-> [tr EXCEPT !.notes = notes]]

\* Training.Cancel
Cancel(tr) ==
    IF tr.canceled
    THEN [err |-> "ErrTrainingAlreadyCanceled", tr |-> tr]
    ELSE [err |-> "nil", tr |-> [tr EXCEPT !.canceled = TRUE]]

\* Training.RescheduleTraining; canBeCanceledForFree is the value of
\* t.CanBeCanceledForFree() at the time of the call
RescheduleTraining(tr, newTime, canBeCanceledForFree) ==
    IF ~canBeCanceledForFree
    THEN [err |-> "CantRescheduleBeforeTimeError", tr |-> tr]
    ELSE [err |-> "nil", tr |-> [tr EXCEPT !.time = newTime]]

\* Training.ProposeReschedule
ProposeReschedule(tr, newTime, proposerType) ==
    [tr EXCEPT !.moveProposedBy = proposerType, !.proposedNewTime = newTime]

\* Training.IsRescheduleProposed
IsRescheduleProposed(tr) ==
    tr.moveProposedBy # ZeroUserType /\ tr.proposedNewTime # ZeroTime

ApproveReschedule_anyRole(tr, userType) ==
    IF ~IsRescheduleProposed(tr)
    THEN [err |-> "ErrNoRescheduleRequested", tr |-> tr]
    ELSE [err |-> "nil",
          tr |-> [tr EXCEPT !.time = tr.proposedNewTime,
                            !.proposedNewTime = ZeroTime,
                            !.moveProposedBy = ZeroUserType]]

\* Training.ApproveReschedule
ApproveReschedule(tr, userType) ==
    IF ~IsRescheduleProposed(tr)
    THEN [err |-> "ErrNoRescheduleRequested", tr |-> tr]
    ELSE IF tr.moveProposedBy = userType
    THEN [err |-> "ErrSameUserTypeApproval", tr |-> tr]
    ELSE [err |-> "nil",
          tr |-> [tr EXCEPT !.time = tr.proposedNewTime,
                            !.proposedNewTime = ZeroTime,
                            !.moveProposedBy = ZeroUserType]]

RejectReschedule_keepProposer(tr) ==
    IF ~IsRescheduleProposed(tr)
    THEN [err |-> "ErrNoRescheduleRequested", tr |-> tr]
    ELSE [err |-> "nil", tr |-> [tr EXCEPT !.proposedNewTime = ZeroTime]]

\* Training.RejectReschedule
RejectReschedule(tr) ==
    IF ~IsRescheduleProposed(tr)
    THEN [err |-> "ErrNoRescheduleRequested", tr |-> tr]
    ELSE [err |-> "nil",
          tr |-> [tr EXCEPT !.proposedNewTime = ZeroTime,
                            !.moveProposedBy = ZeroUserType]]

\* CanUserSeeTraining: the attendee who booked the training, or any trainer
CanUserSeeTraining(user, tr) ==
    user.type = Trainer \/ user.uuid = tr.userUUID

(* ----------------------- training commands ----------------------------- *)
CmdCancel == "CancelTraining"
CmdRequestReschedule == "RequestTrainingReschedule"
CmdApproveReschedule == "ApproveTrainingReschedule"
CmdRejectReschedule == "RejectTrainingReschedule"
CmdReschedule == "RescheduleTraining"

\* a command: the authenticated user, and for the reschedule commands the
\* new time (the zero time when the request carries none) and the new notes;
\* free and moveOk are what the clock and the trainer service answer during
\* the call
TrainingCommand(k, u, t, n, f, m) ==
    [kind |-> k, user |-> u, newTime |-> t, newNotes |-> n, free |-> f, moveOk |-> m]

TrainingCommands ==
    {TrainingCommand(k, u, ZeroTime, 0, TRUE, TRUE) :
        k \in {CmdCancel, CmdApproveReschedule, CmdRejectReschedule}, u \in Users}
    \cup
    {TrainingCommand(CmdRequestReschedule, u, t, 0, TRUE, TRUE) :
        u \in Users, t \in Times \cup {ZeroTime}}
    \cup
    {TrainingCommand(CmdReschedule, u, t, n, f, m) :
        u \in Users, t \in Times, n \in NotesInputs, f \in BOOLEAN, m \in BOOLEAN}

\* the closure cancelTrainingHandler.Handle (trainings) passes to UpdateTraining
trainingsCancelTraining_updateFn(c, tr) == Cancel(tr)

\* the closure requestTrainingRescheduleHandler.Handle passes to UpdateTraining
requestTrainingReschedule_updateFn(c, tr) ==
    [err |-> "nil", tr |-> ProposeReschedule(tr, c.newTime, c.user.type)]

\* the closure approveTrainingRescheduleHandler.Handle passes to UpdateTraining
approveTrainingReschedule_updateFn(c, tr) == ApproveReschedule(tr, c.user.type)

\* the closure rejectTrainingRescheduleHandler.Handle passes to UpdateTraining
rejectTrainingReschedule_updateFn(c, tr) == RejectReschedule(tr)

rescheduleTraining_updateFn_moveFirst(c, tr) ==
    LET n == UpdateNotes(tr, c.newNotes)
        r == RescheduleTraining(n.tr, c.newTime, c.free)
    IN IF ~c.moveOk THEN [err |-> "move-training-failed", tr |-> tr]
       ELSE IF n.err # "nil" THEN [err |-> "update-notes-failed", tr |-> tr]
       ELSE IF r.err # "nil" THEN [err |-> "reschedule-training-failed", tr |-> tr]
       ELSE [err |-> "nil", tr |-> r.tr]

rescheduleTraining_updateFn_ignoreMove(c, tr) ==
    LET n == UpdateNotes(tr, c.newNotes)
        r == RescheduleTraining(n.tr, c.newTime, c.free)
    IN IF n.err # "nil" THEN [err |-> "update-notes-failed", tr |-> tr]
       ELSE IF r.err # "nil" THEN [err |-> "reschedule-training-failed", tr |-> tr]
       ELSE [err |-> "nil", tr |-> r.tr]

\* the closure rescheduleTrainingHandler.Handle passes to UpdateTraining:
\* UpdateNotes, RescheduleTraining, then trainerService.MoveTraining (a call
\* to the trainer service, which answers ok or an error)
rescheduleTraining_updateFn(c, tr) ==
    LET n == UpdateNotes(tr, c.newNotes)
        r == RescheduleTraining(n.tr, c.newTime, c.free)
    IN IF n.err # "nil" THEN [err |-> "update-notes-failed", tr |-> tr]
       ELSE IF r.err # "nil" THEN [err |-> "reschedule-training-failed", tr |-> tr]
       ELSE IF ~c.moveOk THEN [err |-> "move-training-failed", tr |-> tr]
       ELSE [err |-> "nil", tr |-> r.tr]

trainingUpdateFn(c, tr) ==
    CASE c.kind = CmdCancel -> trainingsCancelTraining_updateFn(c, tr)
      [] c.kind = CmdRequestReschedule -> requestTrainingReschedule_updateFn(c, tr)
      [] c.kind = CmdApproveReschedule -> approveTrainingReschedule_updateFn(c, tr)
      [] c.kind = CmdRejectReschedule -> rejectTrainingReschedule_updateFn(c, tr)
      [] c.kind = CmdReschedule -> rescheduleTraining_updateFn(c, tr)

(* ----------------------- trainings_trainings --------------------------- *)
\* a nullable column holds NULL or one value
NULL == <<>>
Value(v) == <<v>>

\* COALESCE(param, column)
COALESCE(param, column) == IF param # NULL THEN param ELSE column

\* the rows the table can hold at the start: the training as CreateTraining
\* stored it, possibly with a reschedule proposal pending, possibly canceled
InitialTrainings ==
    {[id |-> TrainingUUID, user_id |-> OwnerUUID, training_time |-> t,
      notes |-> n, proposed_new_time |-> pr[1], move_proposed_by |-> pr[2],
      canceled |-> c] :
        t \in Times, n \in {NULL, Value(MaxNotesLen)},
        pr \in {<<NULL, NULL>>} \cup
               {<<Value(pt), Value(by)>> : pt \in Times, by \in UserTypes},
        c \in BOOLEAN}

CreateTraining_canceled(tr) ==
    [id |-> tr.uuid, user_id |-> tr.userUUID, training_time |-> tr.time,
     notes |-> NULL, proposed_new_time |-> NULL, move_proposed_by |-> NULL,
     canceled |-> TRUE]

\* AddTraining / CreateTraining: the row INSERT INTO trainings_trainings
\* stores for a training; nil for an empty notes string, a zero
\* proposedNewTime and a zero moveProposedBy
CreateTraining(tr) ==
    [id |-> tr.uuid, user_id |-> tr.userUUID, training_time |-> tr.time,
     notes |-> IF tr.notes # 0 THEN Value(tr.notes) ELSE NULL,
     proposed_new_time |-> IF tr.proposedNewTime # ZeroTime
                           THEN Value(tr.proposedNewTime) ELSE NULL,
     move_proposed_by |-> IF tr.moveProposedBy # ZeroUserType
                          THEN Value(tr.moveProposedBy) ELSE NULL,
     canceled |-> tr.canceled]

GetTraining_none(rows, id) == {}

\* GetTraining: SELECT * FROM trainings_trainings WHERE id = $1
GetTraining(rows, id) == {r \in rows : r.id = id}

\* unmarshalTraining
unmarshalTraining(row) ==
    [uuid |-> row.id,
     userUUID |-> row.user_id,
     time |-> row.training_time,
     notes |-> IF row.notes # NULL THEN row.notes[1] ELSE 0,
     canceled |-> row.canceled,
     proposedNewTime |-> IF row.proposed_new_time # NULL
                         THEN row.proposed_new_time[1] ELSE ZeroTime,
     moveProposedBy |-> IF row.move_proposed_by # NULL /\ row.move_proposed_by # Value("")
                        THEN row.move_proposed_by[1] ELSE ZeroUserType]

\* the parameters UpdateTraining passes to the UPDATE: nil / invalid for an
\* empty notes string, a zero proposedNewTime and a zero moveProposedBy
UpdateTrainingParams(tr) ==
    [notes |-> IF tr.notes # 0 THEN Value(tr.notes) ELSE NULL,
     proposed_new_time |-> IF tr.proposedNewTime # ZeroTime
                           THEN Value(tr.proposedNewTime) ELSE NULL,
     move_proposed_by |-> IF tr.moveProposedBy # ZeroUserType
                          THEN Value(tr.moveProposedBy) ELSE NULL,
     canceled |-> Value(tr.canceled)]

\* UpdateTraining: UPDATE trainings_trainings SET notes = COALESCE($2, notes),
\* proposed_new_time = COALESCE($3, proposed_new_time), move_proposed_by =
\* COALESCE($4, move_proposed_by), canceled = COALESCE($5, canceled) WHERE id = $1
UpdateTrainingRow(row, params) ==
    [row EXCEPT !.notes = COALESCE(params.notes, row.notes),
                !.proposed_new_time = COALESCE(params.proposed_new_time, row.proposed_new_time),
                !.move_proposed_by = COALESCE(params.move_proposed_by, row.move_proposed_by),
                !.canceled = COALESCE(params.canceled, Value(row.canceled))[1]]

\* an UPDATE of the row waits while another transaction holds its lock
TrainingUpdateWaits(p) == \E q \in Procs \ {p} : trUpd[q] # {}

(* ----------------------- trainings read model -------------------------- *)
\* the limit FindTrainingsForUser passes to ListTrainingsByUser
ListLimit == 1000

\* ListTrainingsByUser: SELECT * FROM trainings_trainings WHERE user_id = $1
\* AND canceled = false AND (created_at > $2 OR $2 IS NULL)
\* AND (id > $3 OR $3 IS NULL) ORDER BY created_at, id LIMIT $4, called with
\* the zero time (every row is created after it) and a NULL id.  created_at
\* is not kept in the rows, so beyond the limit the rows returned are some
\* limit of the matching ones.
ListTrainingsByUser(rows, userID, limit) ==
    LET matching == {r \in rows : r.user_id = userID /\ r.canceled = FALSE}
    IN IF Cardinality(matching) <= limit THEN matching
       ELSE CHOOSE S \in SUBSET matching : Cardinality(S) = limit

\* rowToQueryTraining: nil notes become the empty string
rowToQueryTraining(row) ==
    [uuid |-> row.id, userUUID |-> row.user_id, time |-> row.training_time,
     notes |-> IF row.notes # NULL THEN row.notes[1] ELSE 0,
     proposedTime |-> row.proposed_new_time,
     moveProposedBy |-> row.move_proposed_by,
     canBeCancelled |-> ~row.canceled]

\* TrainingPostgresRepository.FindTrainingsForUser
FindTrainingsForUser(rows, userUUID) ==
    {rowToQueryTraining(r) : r \in ListTrainingsByUser(rows, userUUID, ListLimit)}

(* ------------------------- UpdateTraining ------------------------------ *)
\* no user: the caller is not in a call, or its call has passed the
\* visibility check and ended
NoUser == [uuid |-> "", type |-> ZeroUserType]

TrainingCallersInit ==
    /\ trPc = [p \in Procs |-> "new"]
    /\ trKind = [p \in Procs |-> "none"]
    /\ trUser = [p \in Procs |-> NoUser]
    /\ updatedTr = [p \in Procs |-> {}]
    /\ trUpd = [p \in Procs |-> {}]
    /\ trResult = [p \in Procs |-> "none"]

\* the table holds the training, or does not hold it
TrainingInit ==
    /\ trainings_trainings \in {{}} \cup {{r} : r \in InitialTrainings}
    /\ TrainingCallersInit

\* return err from UpdateTraining: the deferred tx.Rollback discards the
\* transaction's write
TrainingReturn(p, res) ==
    /\ trPc' = [trPc EXCEPT ![p] = "done"]
    /\ trResult' = [trResult EXCEPT ![p] = res]
    /\ trKind' = [trKind EXCEPT ![p] = "none"]
    /\ updatedTr' = [updatedTr EXCEPT ![p] = {}]
    /\ trUpd' = [trUpd EXCEPT ![p] = {}]
    /\ UNCHANGED trainings_trainings

\* a handler calls UpdateTraining: pool.Begin, queries.GetTraining,
\* unmarshalTraining, CanUserSeeTraining and updateFn (after the SELECT no
\* statement is sent to the database until the UPDATE).  Callers are
\* interchangeable, so they start in the order of their numbers.
UpdateTraining_GetTraining(p) ==
    /\ trPc[p] = "new"
    /\ \A q \in Procs : q < p => trPc[q] # "new"
    /\ \E c \in TrainingCommands :
         LET found == GetTraining(trainings_trainings, TrainingUUID)
             tr == unmarshalTraining(CHOOSE r \in found : TRUE)
             out == trainingUpdateFn(c, tr)
         IN /\ trUser' = [trUser EXCEPT ![p] = c.user]
            /\ IF found = {} THEN TrainingReturn(p, "NotFoundError")
               ELSE IF ~CanUserSeeTraining(c.user, tr)
               THEN TrainingReturn(p, "ForbiddenToSeeTrainingError")
               ELSE IF out.err # "nil" THEN TrainingReturn(p, out.err)
               ELSE /\ updatedTr' = [updatedTr EXCEPT ![p] = {out.tr}]
                    /\ trKind' = [trKind EXCEPT ![p] = c.kind]
                    /\ trPc' = [trPc EXCEPT ![p] = "applied"]
                    /\ UNCHANGED <<trainings_trainings, trUpd, trResult>>
    /\ UNCHANGED outsideTraining

\* queries.UpdateTraining(ctx, id, notes, proposedNewTime, moveProposedBy,
\* updatedTr.IsCanceled()): the new version of the row is computed from the
\* row's latest committed version
UpdateTraining_UpdateTraining(p) ==
    /\ trPc[p] = "applied"
    /\ ~TrainingUpdateWaits(p)
    /\ LET tr == CHOOSE t \in updatedTr[p] : TRUE
       IN trUpd' = [trUpd EXCEPT ![p] =
                      {UpdateTrainingRow(r, UpdateTrainingParams(tr)) :
                          r \in GetTraining(trainings_trainings, tr.uuid)}]
    /\ trPc' = [trPc EXCEPT ![p] = "updated"]
    /\ UNCHANGED <<trainings_trainings, trKind, trUser, updatedTr, trResult>>
    /\ UNCHANGED outsideTraining

\* tx.Commit: the new version of the row replaces the committed one
UpdateTraining_Commit(p) ==
    /\ trPc[p] = "updated"
    /\ trainings_trainings' =
         {r \in trainings_trainings : \A u \in trUpd[p] : u.id # r.id} \cup trUpd[p]
    /\ trPc' = [trPc EXCEPT ![p] = "done"]
    /\ trResult' = [trResult EXCEPT ![p] = "ok"]
    /\ trKind' = [trKind EXCEPT ![p] = "none"]
    /\ updatedTr' = [updatedTr EXCEPT ![p] = {}]
    /\ trUpd' = [trUpd EXCEPT ![p] = {}]
    /\ trUser' = [trUser EXCEPT ![p] = NoUser]
    /\ UNCHANGED outsideTraining

\* the UPDATE or the Commit fails with a storage or connectivity error
UpdateTraining_Fail(p) ==
    /\ trPc[p] \in {"applied", "updated"}
    /\ TrainingReturn(p, "ErrConnectionFailed")
    /\ trUser' = [trUser EXCEPT ![p] = NoUser]
    /\ UNCHANGED outsideTraining

TrainingNext ==
    \E p \in Procs :
        \/ UpdateTraining_GetTraining(p)
        \/ UpdateTraining_UpdateTraining(p)
        \/ UpdateTraining_Commit(p)
        \/ UpdateTraining_Fail(p)

(* ======================= Training aggregate ============================ *)
(* The methods of Training called one after another on one aggregate in    *)
(* memory, as the closures passed to UpdateTraining call them.             *)

\* NewTraining: no reschedule is pending, the training is not canceled
NewTraining(uuid, userUUID, time) ==
    [uuid |-> uuid, userUUID |-> userUUID, time |-> time, notes |-> 0,
     canceled |-> FALSE, proposedNewTime |-> ZeroTime,
     moveProposedBy |-> ZeroUserType]

\* no method is called on an aggregate in memory
AggIdle ==
    /\ training = <<>>
    /\ call = <<>>

AggInit ==
    /\ training \in {NewTraining(TrainingUUID, OwnerUUID, t) : t \in Times}
    /\ call = [op |-> "NewTraining", userType |-> ZeroUserType,
               newTime |-> ZeroTime, before |-> training, err |-> "nil"]

\* one method call: its name and arguments, the aggregate before the call,
\* the error it returned, and the aggregate after it
Method(op, userType, newTime, res) ==
    /\ call' = [op |-> op, userType |-> userType, newTime |-> newTime,
                before |-> training, err |-> res.err]
    /\ training' = res.tr
    /\ UNCHANGED <<hourVars, trainingVars, appVars, clientVars>>

Training_Cancel == Method("Cancel", ZeroUserType, ZeroTime, Cancel(training))

Training_RescheduleTraining ==
    \E t \in Times, free \in BOOLEAN :
        Method("RescheduleTraining", ZeroUserType, t,
               RescheduleTraining(training, t, free))

Training_ProposeReschedule ==
    \E t \in Times \cup {ZeroTime}, u \in UserTypes :
        Method("ProposeReschedule", u, t,
               [err |-> "nil", tr |-> ProposeReschedule(training, t, u)])

Training_ApproveReschedule ==
    \E u \in UserTypes :
        Method("ApproveReschedule", u, ZeroTime, ApproveReschedule(training, u))

Training_RejectReschedule ==
    Method("RejectReschedule", ZeroUserType, ZeroTime, RejectReschedule(training))

AggNext ==
    \/ Training_Cancel
    \/ Training_RescheduleTraining
    \/ Training_ProposeReschedule
    \/ Training_ApproveReschedule
    \/ Training_RejectReschedule

(* ======================= users context ================================= *)
(* UpdateBalance sends one UPDATE statement outside any transaction; the   *)
(* statement reads and writes the balance of the row under its row lock,   *)
(* so it is one step.                                                      *)

\* the users that have a row in users_users
AttendeeIds == {u.uuid : u \in {v \in Users : v.type = Attendee}}

\* balance INTEGER NOT NULL DEFAULT 0
InitialBalance == 0

\* an amountChange (a Go int, 64 bits wide) is kept as hi * 2^32 + lo with
\* lo in the range of int32
Amount(hi, lo) == [hi |-> hi, lo |-> lo]

\* the amounts UpdateBalance is called with: -1 (ScheduleTraining), 1 (a
\* credit), and 2^32 - 1, 2^32 for amounts beyond the range of int32
AmountChanges == {Amount(0, -1), Amount(0, 1), Amount(1, -1), Amount(1, 0)}

\* int32(amountChange): the conversion keeps the low 32 bits
int32(amountChange) == amountChange.lo

UpdateBalanceRow_set(balance, change) == change

\* SET balance = balance + $2
UpdateBalanceRow(balance, change) == balance + change

\* queries.UpdateBalance: UPDATE users_users SET balance = balance + $2
\* WHERE id = $1 (no row, and no error, for an id that is not stored)
UpdateBalance(rows, userID, amountChange) ==
    [id \in DOMAIN rows |->
        IF id = userID THEN UpdateBalanceRow(rows[id], int32(amountChange))
        ELSE rows[id]]

\* one entry of balanceLog
BalanceCall(amountChange, err) ==
    [hi |-> amountChange.hi, lo |-> amountChange.lo, err |-> err]

LogCall(log, userID, amountChange, err) ==
    [log EXCEPT ![userID] = @ (+) SetToBag({BalanceCall(amountChange, err)})]

\* UserPostgresRepository.UpdateBalance returns nil
UpdateBalance_Ok(userID, amountChange) ==
    /\ users_users' = UpdateBalance(users_users, userID, amountChange)
    /\ balanceLog' = LogCall(balanceLog, userID, amountChange, "nil")

\* UserPostgresRepository.UpdateBalance returns the translated error of the
\* statement
UpdateBalance_Err(userID, amountChange) ==
    /\ balanceLog' = LogCall(balanceLog, userID, amountChange, "ErrConnectionFailed")
    /\ UNCHANGED users_users

UsersInit ==
    /\ users_users = [id \in AttendeeIds |-> InitialBalance]
    /\ balanceLog = [id \in AttendeeIds |-> EmptyBag]

BalanceCalls == BagCardinality(balanceLog[OwnerUUID]) + BagCardinality(balanceLog["attendee-2"])

\* the users service receives UpdateTrainingBalance(userID, amountChange)
UpdateTrainingBalance(userID, amountChange) ==
    /\ BalanceCalls < MaxBalanceCalls
    /\ UpdateBalance_Ok(userID, amountChange)
    /\ UNCHANGED <<appPc, appTr, appResult, rpc>>
    /\ UNCHANGED <<hourVars, trainingVars, aggVars, clientVars>>

UpdateTrainingBalance_Fail(userID, amountChange) ==
    /\ BalanceCalls < MaxBalanceCalls
    /\ UpdateBalance_Err(userID, amountChange)
    /\ UNCHANGED <<appPc, appTr, appResult, rpc>>
    /\ UNCHANGED <<hourVars, trainingVars, aggVars, clientVars>>

UsersNext ==
    \E userID \in AttendeeIds, amountChange \in AmountChanges :
        \/ UpdateTrainingBalance(userID, amountChange)
        \/ UpdateTrainingBalance_Fail(userID, amountChange)

\* no ScheduleTraining command of the trainings context runs
AppCallersInit ==
    /\ appPc = [p \in Procs |-> "new"]
    /\ appTr = [p \in Procs |-> {}]
    /\ appResult = [p \in Procs |-> "none"]
    /\ rpc = [p \in Procs |-> <<>>]

\* the users service and the trainings command handlers take no part: no
\* users row is touched, no call is logged and no command has a caller
AppIdle ==
    /\ users_users = <<>>
    /\ balanceLog = <<>>
    /\ appPc = <<>>
    /\ appTr = <<>>
    /\ appResult = <<>>
    /\ rpc = <<>>

\* the test client has sent no command
ClientIdle == seen = <<>>

(* ======================= trainings command handlers ==================== *)
(* ScheduleTraining and RescheduleTraining of the trainings context call   *)
(* the users service and the trainer service.  A call to the trainer       *)
(* service runs one UpdateHour call; here it is one step (the statements   *)
(* of concurrent UpdateHour calls interleave in Spec and SpecRace).        *)

\* UpdateHour(hourTime, updateFn) of caller p run alone on the table:
\* GetHourByTime, CreateHour of a NotAvailable hour when no row is found,
\* updateFn, UpdateHourAvailability, Commit; an error of updateFn leaves the
\* table as it was
UpdateHour(rows, t, kind, p) ==
    LET found == GetHourByTime(rows, t)
        created == [id |-> <<p, t>>, hour_time |-> t,
                    availability |-> AvailabilityString(NotAvailable)]
        row == IF found # {} THEN CHOOSE r \in found : TRUE ELSE created
        table == IF found # {} THEN rows ELSE rows \cup {created}
        out == updateFn(kind, NewAvailabilityFromString(row.availability))
    IN IF out.err # "nil"
       THEN [err |-> out.err, rows |-> rows]
       ELSE [err |-> "nil",
             rows |-> UpdateHourAvailability(table, row.id,
                                             AvailabilityString(out.availability))]

\* the answer of a call that did not reach the service
Unreachable(rows) == [err |-> "ErrConnectionFailed", rows |-> rows]

\* trainerService.ScheduleTraining(ctx, trainingTime)
TrainerService_ScheduleTraining(rows, t, p) == UpdateHour(rows, t, CmdScheduleTraining, p)

\* trainerService.CancelTraining(ctx, trainingTime)
TrainerService_CancelTraining(rows, t, p) == UpdateHour(rows, t, CmdCancelTraining, p)

\* trainerService.MoveTraining(ctx, newTime, originalTrainingTime): the new
\* hour is scheduled, then the original hour is canceled
TrainerService_MoveTraining(rows, newTime, originalTrainingTime, p) ==
    LET s == TrainerService_ScheduleTraining(rows, newTime, p)
        c == TrainerService_CancelTraining(s.rows, originalTrainingTime, p)
    IN IF s.err # "nil" THEN [err |-> "unable to schedule training", rows |-> rows]
       ELSE IF c.err # "nil" THEN [err |-> "unable to cancel training", rows |-> s.rows]
       ELSE c

\* one call to another service and its outcome
Rpc(name, err) == [call |-> name, err |-> err]

(* ------------------- scheduleTrainingHandler.Handle -------------------- *)
\* the training id of the command caller p handles
ScheduleUUID(p) == "training-" \o ToString(p + 1)

scheduleTraining_amountChange_two == Amount(0, -2)

\* h.userService.UpdateTrainingBalance(ctx, tr.UserUUID(), -1)
scheduleTraining_amountChange == Amount(0, -1)

\* return err
ScheduleTraining_Return(p, res) ==
    /\ appPc' = [appPc EXCEPT ![p] = "done"]
    /\ appResult' = [appResult EXCEPT ![p] = res]
    /\ appTr' = [appTr EXCEPT ![p] = {}]

\* caller p has not received its command yet
Waiting(p) == appPc[p] = "new" /\ trPc[p] = "new"

\* callers are interchangeable, so they receive their commands in the order
\* of their numbers
NextCaller(p) == Waiting(p) /\ \A q \in Procs : q < p => ~Waiting(q)

\* training.NewTraining and h.repo.AddTraining: CreateTraining inserts the row
ScheduleTraining_AddTraining(p) ==
    /\ NextCaller(p)
    /\ \E userUUID \in AttendeeIds, t \in Times :
         LET tr == NewTraining(ScheduleUUID(p), userUUID, t)
         IN \/ /\ trainings_trainings' = trainings_trainings \cup {CreateTraining(tr)}
               /\ appTr' = [appTr EXCEPT ![p] = {tr}]
               /\ appPc' = [appPc EXCEPT ![p] = "added"]
               /\ UNCHANGED appResult
            \/ /\ ScheduleTraining_Return(p, "ErrConnectionFailed")
               /\ UNCHANGED trainings_trainings
    /\ UNCHANGED <<users_users, balanceLog, rpc>>
    /\ UNCHANGED <<trPc, trKind, trUser, updatedTr, trUpd, trResult>>
    /\ UNCHANGED <<hourVars, aggVars, clientVars>>

\* h.userService.UpdateTrainingBalance(ctx, tr.UserUUID(), -1)
ScheduleTraining_UpdateTrainingBalance(p) ==
    /\ appPc[p] = "added"
    /\ \E tr \in appTr[p] :
         \/ /\ UpdateBalance_Ok(tr.userUUID, scheduleTraining_amountChange)
            /\ rpc' = [rpc EXCEPT ![p] = Append(@, Rpc("UpdateTrainingBalance", "nil"))]
            /\ appPc' = [appPc EXCEPT ![p] = "debited"]
            /\ UNCHANGED <<appTr, appResult>>
         \/ /\ UpdateBalance_Err(tr.userUUID, scheduleTraining_amountChange)
            /\ rpc' = [rpc EXCEPT ![p] = Append(@, Rpc("UpdateTrainingBalance", "ErrConnectionFailed"))]
            /\ ScheduleTraining_Return(p, "unable to change trainings balance")
    /\ UNCHANGED <<hourVars, trainingVars, aggVars, clientVars>>

\* h.trainerService.ScheduleTraining(ctx, tr.Time())
ScheduleTraining_ScheduleTraining(p) ==
    /\ appPc[p] = "debited"
    /\ \E tr \in appTr[p] :
         \E r \in {TrainerService_ScheduleTraining(trainer_hours, tr.time, p),
                   Unreachable(trainer_hours)} :
            /\ trainer_hours' = r.rows
            /\ rpc' = [rpc EXCEPT ![p] = Append(@, Rpc("ScheduleTraining", r.err))]
            /\ ScheduleTraining_Return(p, IF r.err = "nil" THEN "ok"
                                          ELSE "unable to schedule training")
    /\ UNCHANGED <<users_users, balanceLog>>
    /\ UNCHANGED <<pc, cmd, idx, dbHour, updatedHour, ins, upd, result>>
    /\ UNCHANGED <<trainingVars, aggVars, clientVars>>

(* ------------------- rescheduleTrainingHandler.Handle ------------------ *)
\* the RescheduleTraining commands: any user, any new time, no new notes;
\* moveOk is set by the answer of the trainer service
RescheduleCommands ==
    {c \in TrainingCommands : c.kind = CmdReschedule /\ c.moveOk /\ c.newNotes = 0}

\* UpdateTraining called by rescheduleTrainingHandler.Handle: pool.Begin,
\* queries.GetTraining, unmarshalTraining, CanUserSeeTraining and the
\* closure, which calls trainerService.MoveTraining after UpdateNotes and
\* RescheduleTraining have succeeded
RescheduleTraining_GetTraining(p) ==
    /\ NextCaller(p)
    /\ \E c \in RescheduleCommands :
         LET found == GetTraining(trainings_trainings, TrainingUUID)
             tr == unmarshalTraining(CHOOSE r \in found : TRUE)
             called == found # {} /\ CanUserSeeTraining(c.user, tr)
                         /\ rescheduleTraining_updateFn(c, tr).err = "nil"
         IN \E mv \in IF called
                      THEN {TrainerService_MoveTraining(trainer_hours, c.newTime, tr.time, p),
                            Unreachable(trainer_hours)}
                      ELSE {[err |-> "none", rows |-> trainer_hours]} :
              LET out == rescheduleTraining_updateFn([c EXCEPT !.moveOk = mv.err = "nil"], tr)
              IN /\ trainer_hours' = mv.rows
                 /\ rpc' = [rpc EXCEPT ![p] =
                              IF called THEN Append(@, Rpc("MoveTraining", mv.err)) ELSE @]
                 /\ trUser' = [trUser EXCEPT ![p] =
                                 IF called /\ out.err = "nil" THEN c.user ELSE NoUser]
                 /\ IF found = {} THEN TrainingReturn(p, "NotFoundError")
                    ELSE IF ~CanUserSeeTraining(c.user, tr)
                    THEN TrainingReturn(p, "ForbiddenToSeeTrainingError")
                    ELSE IF out.err # "nil" THEN TrainingReturn(p, out.err)
                    ELSE /\ updatedTr' = [updatedTr EXCEPT ![p] = {out.tr}]
                         /\ trKind' = [trKind EXCEPT ![p] = c.kind]
                         /\ trPc' = [trPc EXCEPT ![p] = "applied"]
                         /\ UNCHANGED <<trainings_trainings, trUpd, trResult>>
    /\ UNCHANGED <<users_users, balanceLog, appPc, appTr, appResult>>
    /\ UNCHANGED <<pc, cmd, idx, dbHour, updatedHour, ins, upd, result>>
    /\ UNCHANGED <<aggVars, clientVars>>

AppNext ==
    \E p \in Procs :
        \/ ScheduleTraining_AddTraining(p)
        \/ ScheduleTraining_UpdateTrainingBalance(p)
        \/ ScheduleTraining_ScheduleTraining(p)
        \/ RescheduleTraining_GetTraining(p)
        \/ UpdateTraining_UpdateTraining(p)
        \/ UpdateTraining_Commit(p)
        \/ UpdateTraining_Fail(p)

\* the training TrainingUUID is booked (its row is stored and its hour is
\* TrainingScheduled), or no training is stored and no hour is
\* TrainingScheduled; every other hour is Available or has no row yet
AppInit ==
    /\ UsersInit
    /\ AppCallersInit
    /\ TrainingCallersInit
    /\ HourInit
    /\ \A t \in Times : InitialRow(t, NotAvailable) \notin trainer_hours
    /\ AggIdle
    /\ ClientIdle
    /\ trainings_trainings \in
          {{}} \cup {{CreateTraining(NewTraining(TrainingUUID, OwnerUUID, t))} : t \in Times}
    /\ \A t \in Times :
          (InitialRow(t, TrainingScheduled) \in trainer_hours)
             <=> (\E r \in trainings_trainings : r.training_time = t)

SpecApp == AppInit /\ [][AppNext]_vars

(* ================= available hours and the component test ============== *)
(* AvailableHours reads the committed rows with one SELECT.  The component *)
(* test sends its three commands one after the other, each handled by the  *)
(* trainer service as a request of its own, and reads the available hours  *)
(* after each; the tests that run in parallel with it work on other hours. *)

\* times are counted in hours
HoursPerDay == 24

\* h.HourTime.Format("2006-01-02"): the date an hour falls on
DateOf(t) == t \div HoursPerDay

\* ListHoursByTimeRange: SELECT * FROM trainer_hours
\* WHERE hour_time BETWEEN $1 AND $2
ListHoursByTimeRange(rows, startTime, endTime) ==
    {r \in rows : startTime <= r.hour_time /\ r.hour_time <= endTime}

QueryHour_hasTraining(h) ==
    [available |-> h.availability = "training_scheduled",
     hasTrainingScheduled |-> h.availability = "training_scheduled",
     hour |-> h.hour_time]

\* the query.Hour AvailableHours builds from a row
QueryHour(h) ==
    [available |-> h.availability = "available",
     hasTrainingScheduled |-> h.availability = "training_scheduled",
     hour |-> h.hour_time]

\* HourPostgresRepository.AvailableHours: the hours of the range grouped by
\* date (the hours of a date are kept as a set)
AvailableHours(rows, from, to) ==
    LET hours == ListHoursByTimeRange(rows, from, to)
    IN {[date |-> d,
         hasFreeHours |-> \E h \in hours :
                             DateOf(h.hour_time) = d /\ h.availability = "available",
         hours |-> {QueryHour(h) : h \in {x \in hours : DateOf(x.hour_time) = d}}] :
           d \in {DateOf(h.hour_time) : h \in hours}}

\* TestHoursAvailability: the caller that handles the requests of the test
\* and the hour the test works on
TestCaller == 1
TestHour == 1

\* the commands of the test in their order
TestScript == <<CmdMakeHoursUnavailable, CmdMakeHoursAvailable, CmdMakeHoursUnavailable>>

\* getHours: the hours of the date of the test hour, read from the day
\* before to the day after
getHours(rows) ==
    LET date == DateOf(TestHour)
        dates == AvailableHours(rows, (date - 1) * HoursPerDay, (date + 1) * HoursPerDay)
    IN UNION {d.hours : d \in {x \in dates : x.date = date}}

\* findHour: the entry of the target hour, if there is one
findHour(hours, targetHour) == {h \in hours : h.hour = targetHour}

\* what the client knows of a command it has sent and not yet looked at
Pending == [result |-> "pending", found |-> {}]

\* client.MakeHourUnavailable / client.MakeHourAvailable: the client sends
\* the next command of the test once the one before has succeeded
Test_Command ==
    /\ Len(seen) < Len(TestScript)
    /\ \/ seen = <<>> /\ pc[TestCaller] = "new"
       \/ seen # <<>> /\ pc[TestCaller] = "done" /\ seen[Len(seen)].result = "ok"
    /\ cmd' = [cmd EXCEPT ![TestCaller] =
                  [kind |-> TestScript[Len(seen) + 1], hours |-> <<TestHour>>]]
    /\ idx' = [idx EXCEPT ![TestCaller] = 1]
    /\ pc' = [pc EXCEPT ![TestCaller] = "begun"]
    /\ result' = [result EXCEPT ![TestCaller] = "none"]
    /\ seen' = Append(seen, Pending)
    /\ UNCHANGED <<trainer_hours, dbHour, updatedHour, ins, upd>>
    /\ UNCHANGED <<trainingVars, aggVars, appVars>>

\* foundHour := findHour(getHours(), hour), after the command has returned
Test_GetHours ==
    /\ seen # <<>>
    /\ seen[Len(seen)] = Pending
    /\ pc[TestCaller] = "done"
    /\ seen' = [seen EXCEPT ![Len(seen)] =
                   [result |-> result[TestCaller],
                    found |-> findHour(getHours(trainer_hours), TestHour)]]
    /\ UNCHANGED <<hourVars, trainingVars, aggVars, appVars>>

\* a test that runs in parallel sends a command for an hour of its own
Test_OtherHandle(p) ==
    /\ p # TestCaller
    /\ \E c \in HourCommands : c.hours[1] # TestHour /\ Call(p, c)

\* the test hour has no row when the test starts
TestInit ==
    /\ HourInit
    /\ GetHourByTime(trainer_hours, TestHour) = {}
    /\ trainings_trainings = {}
    /\ TrainingCallersInit
    /\ AggIdle
    /\ AppIdle
    /\ ClientIdle

TestNext ==
    \/ Test_Command
    \/ Test_GetHours
    \/ \E p \in Procs :
        \/ Test_OtherHandle(p)
        \/ UpdateHour_GetHourByTime(p)
        \/ UpdateHour_CreateHour(p)
        \/ UpdateHour_UpdateHourAvailability(p)
        \/ UpdateHour_Commit(p)
        \/ UpdateHour_Fail(p)

SpecTest == TestInit /\ [][TestNext]_vars

(* -------------------------- specifications ----------------------------- *)
\* the trainer context: no training is stored, no UpdateTraining call runs
Init ==
    /\ HourInit
    /\ trainings_trainings = {}
    /\ TrainingCallersInit
    /\ AggIdle
    /\ ClientIdle
    /\ AppIdle

Next == HourNext

Spec == Init /\ [][Next]_vars

\* the trainings context: no hour is stored, no UpdateHour call runs
TrainingSpecInit ==
    /\ TrainingInit
    /\ HourInit
    /\ trainer_hours = {}
    /\ AggIdle
    /\ ClientIdle
    /\ AppIdle

SpecTraining == TrainingSpecInit /\ [][TrainingNext]_vars

\* the race for one hour: hour RaceHour is stored as Available
RaceInit ==
    /\ HourInit
    /\ InitialRow(RaceHour, Available) \in trainer_hours
    /\ trainings_trainings = {}
    /\ TrainingCallersInit
    /\ AggIdle
    /\ ClientIdle
    /\ AppIdle

\* every caller runs ScheduleTraining for hour RaceHour (the hour has a row,
\* so no call comes to CreateHour)
RaceNext ==
    \E p \in Procs :
        \/ ScheduleRaceHour(p)
        \/ UpdateHour_GetHourByTime(p)
        \/ UpdateHour_UpdateHourAvailability(p)
        \/ UpdateHour_Commit(p)
        \/ UpdateHour_Fail(p)

SpecRace == RaceInit /\ [][RaceNext]_vars

\* the batch commands overlap on two hours: hour RaceHour and the hour
\* after it
BatchHours == {RaceHour, RaceHour + 1}

\* the hour lists of the batch commands: the two hours in either order
HourLists == {h \in BatchHours \X BatchHours : h[1] # h[2]}

\* MakeHoursAvailable and MakeHoursUnavailable with a list of hours,
\* ScheduleTraining and CancelTraining with their one hour
BatchCommands ==
    {[kind |-> k, hours |-> h] :
        k \in {CmdMakeHoursAvailable, CmdMakeHoursUnavailable}, h \in HourLists}
    \cup {[kind |-> k, hours |-> <<t>>] :
            k \in {CmdScheduleTraining, CmdCancelTraining}, t \in BatchHours}

HandleBatch(p) == \E c \in BatchCommands : Call(p, c)

\* each of the two hours has no row yet or a row in any availability; no
\* other hour has a row
BatchInit ==
    /\ HourInit
    /\ \A r \in trainer_hours : r.hour_time \in BatchHours
    /\ trainings_trainings = {}
    /\ TrainingCallersInit
    /\ AggIdle
    /\ ClientIdle
    /\ AppIdle

BatchNext ==
    \E p \in Procs :
        \/ HandleBatch(p)
        \/ UpdateHour_GetHourByTime(p)
        \/ UpdateHour_CreateHour(p)
        \/ UpdateHour_UpdateHourAvailability(p)
        \/ UpdateHour_Commit(p)
        \/ UpdateHour_Fail(p)

\* the commands of the trainer context with hour lists
SpecBatch == BatchInit /\ [][BatchNext]_vars

\* commands of every kind for the one hour RaceHour: the callers meet on
\* one row, or on the insert of one hour_time
HandleRaceHour(p) ==
    \E k \in {CmdMakeHoursAvailable, CmdMakeHoursUnavailable,
              CmdScheduleTraining, CmdCancelTraining} :
        Call(p, [kind |-> k, hours |-> <<RaceHour>>])

\* hour RaceHour has no row or a row in any availability; no other hour has
\* a row
SameRowInit ==
    /\ HourInit
    /\ \A r \in trainer_hours : r.hour_time = RaceHour
    /\ trainings_trainings = {}
    /\ TrainingCallersInit
    /\ AggIdle
    /\ ClientIdle
    /\ AppIdle

SameRowNext ==
    \E p \in Procs :
        \/ HandleRaceHour(p)
        \/ UpdateHour_GetHourByTime(p)
        \/ UpdateHour_CreateHour(p)
        \/ UpdateHour_UpdateHourAvailability(p)
        \/ UpdateHour_Commit(p)
        \/ UpdateHour_Fail(p)

\* the next statement of caller p's transaction is answered
UpdateHour_Step(p) ==
    \/ UpdateHour_GetHourByTime(p)
    \/ UpdateHour_CreateHour(p)
    \/ UpdateHour_UpdateHourAvailability(p)
    \/ UpdateHour_Commit(p)

SpecSameRow == SameRowInit /\ [][SameRowNext]_vars

\* every request goroutine keeps running and the database answers every
\* statement that is not waiting for a lock: a caller whose next statement
\* can run takes that step (or fails) eventually
SpecSameRowFair ==
    /\ SpecSameRow
    /\ \A p \in Procs : WF_vars(UpdateHour_Step(p))

\* UpdateTraining calls on a training as ScheduleTraining stored it, or on
\* a training that is not stored
VisibilityInit ==
    /\ trainings_trainings \in
          {{}} \cup {{CreateTraining(NewTraining(TrainingUUID, OwnerUUID, t))} : t \in Times}
    /\ TrainingCallersInit
    /\ HourInit
    /\ trainer_hours = {}
    /\ AggIdle
    /\ ClientIdle
    /\ AppIdle

SpecVisibility == VisibilityInit /\ [][TrainingNext]_vars

\* the users context: UpdateTrainingBalance calls, nothing else runs
UsersSpecInit ==
    /\ UsersInit
    /\ AppCallersInit
    /\ HourInit
    /\ trainer_hours = {}
    /\ trainings_trainings = {}
    /\ TrainingCallersInit
    /\ AggIdle
    /\ ClientIdle

SpecUsers == UsersSpecInit /\ [][UsersNext]_vars

\* the Training aggregate alone: nothing is stored, no repository call runs
AggSpecInit ==
    /\ AggInit
    /\ ClientIdle
    /\ HourInit
    /\ trainer_hours = {}
    /\ trainings_trainings = {}
    /\ TrainingCallersInit
    /\ AppIdle

SpecAggregate == AggSpecInit /\ [][AggNext]_vars

(* ======================= claims: hour repository ======================= *)
DomainErrors == {"ErrTrainingScheduled", "ErrHourNotAvailable", "ErrNoTrainingScheduled"}

RowsAt(rows, t) == {r \in rows : r.hour_time = t}

\* the step of caller p calls updateFn on an hour in availability a
updateFnStep(p, a) ==
    \/ /\ pc[p] = "begun"
       /\ pc'[p] \in {"applied", "done"}
       /\ result'[p] # "ErrConnectionFailed"
       /\ \E r \in RowsAt(trainer_hours, hourTime(p)) :
            NewAvailabilityFromString(r.availability) = a
    \/ /\ pc[p] = "notfound"
       /\ pc'[p] \in {"applied", "done"}
       /\ result'[p] \notin {"ErrConnectionFailed", "ErrConflict"}
       /\ a = NotAvailable

\* the step of caller p is a successful tx.Commit
CommitStep(p) ==
    /\ pc[p] = "updated"
    /\ \/ idx'[p] = idx[p] + 1
       \/ pc'[p] = "done" /\ result'[p] = "ok"

\* the step of caller p ends its UpdateHour call with an error
ErrorStep(p) == pc[p] # "done" /\ pc'[p] = "done" /\ result'[p] # "ok"

\* every caller has run to its end, none of them hit a storage failure
RaceFinished ==
    /\ Cardinality(Procs) >= 2
    /\ \A p \in Procs :
         /\ pc[p] = "done"
         /\ result[p] \in {"ok"} \cup DomainErrors

\* C1: of N >= 2 ScheduleTraining calls against the same hour that started
\* Available (the calls of SpecRace, all for RaceHour), exactly one succeeds,
\* the others fail with a domain conflict and the hour ends
\* TrainingScheduled.
C1_ExactlyOneSucceeds ==
    RaceFinished
    => /\ Cardinality({p \in Procs : result[p] = "ok"}) = 1
       /\ \A p \in Procs : result[p] # "ok" => result[p] = "ErrHourNotAvailable"
       /\ \A r \in RowsAt(trainer_hours, RaceHour) :
            r.availability = AvailabilityString(TrainingScheduled)

\* C2: no two UpdateHour calls whose transactions are open at the same time
\* have handed the same hour row (the same pre-transition state) to their
\* transition functions.
C2_NoSharedPreState ==
    \A p, q \in Procs :
        (p # q /\ pc[p] \in {"applied", "updated"} /\ pc[q] \in {"applied", "updated"})
        => dbHour[p] # dbHour[q]

\* C3: no two rows of trainer_hours share a timestamp.
C3_UniqueTime ==
    \A r1, r2 \in trainer_hours : r1.hour_time = r2.hour_time => r1 = r2

\* a caller lost the race for the first insert of an hour to the caller
\* whose row is now stored
C3_Witness ==
    \E p, q \in Procs :
        /\ pc[p] = "done" /\ result[p] = "ErrConflict"
        /\ pc[q] = "done" /\ result[q] = "ok"
        /\ \E r \in trainer_hours : r.id = <<q, 1>>
        /\ Cardinality(trainer_hours) = 1

\* C4: an UpdateHour call that ends with an error (from the transition
\* function or from any later step) leaves the stored hours as they were, and
\* the row it inserted as NotAvailable is not stored.
C4_NoPartialWrites ==
    [][\A p \in Procs :
         ErrorStep(p) =>
            /\ trainer_hours' = trainer_hours
            /\ \A r \in trainer_hours' : r.id # <<p, idx[p]>>]_vars

\* a call that had inserted the row failed in its transition function (the
\* function ran on a row, and no row is stored: the row was the call's own)
C4_Witness ==
    \E p \in Procs :
        /\ pc[p] = "done"
        /\ result[p] \in DomainErrors
        /\ trainer_hours = {}

AllPairs == {CmdMakeHoursAvailable, CmdMakeHoursUnavailable, CmdScheduleTraining,
             CmdCancelTraining} \X Availabilities

LegalPairs == {<<CmdMakeHoursAvailable, NotAvailable>>,
               <<CmdMakeHoursUnavailable, Available>>,
               <<CmdScheduleTraining, Available>>,
               <<CmdCancelTraining, TrainingScheduled>>}

SameStatePairs == {<<CmdMakeHoursAvailable, Available>>,
                   <<CmdMakeHoursUnavailable, NotAvailable>>}

\* the pairs that are neither legal nor same-state
GuardedPairs == AllPairs \ (LegalPairs \cup SameStatePairs)

Rejected(p) ==
    /\ pc'[p] = "done"
    /\ result'[p] \in DomainErrors
    /\ trainer_hours' = trainer_hours

Target(kind) ==
    CASE kind = CmdMakeHoursAvailable -> Available
      [] kind = CmdMakeHoursUnavailable -> NotAvailable
      [] kind = CmdScheduleTraining -> TrainingScheduled
      [] kind = CmdCancelTraining -> Available

\* C6: each legal transition is accepted and yields its target state, and
\* when UpdateHour commits, the stored availability of that hour is the
\* target state and no other hour row changes.
C6_LegalTransitionsCommit ==
    [][\A p \in Procs :
         /\ \A a \in Availabilities :
              (updateFnStep(p, a) /\ <<cmd[p].kind, a>> \in LegalPairs)
              => (pc'[p] = "applied" /\ updatedHour'[p] = Target(cmd[p].kind))
         /\ CommitStep(p)
            => /\ RowsAt(trainer_hours', hourTime(p)) # {}
               /\ \A r \in RowsAt(trainer_hours', hourTime(p)) :
                    r.availability = AvailabilityString(Target(cmd[p].kind))
               /\ \A t \in Times \ {hourTime(p)} :
                    RowsAt(trainer_hours', t) = RowsAt(trainer_hours, t)]_vars

\* a call has committed a legal transition of the row it had inserted as
\* NotAvailable to Available, while another hour keeps its row
C6_Witness ==
    \E p \in Procs : \E r \in trainer_hours :
        /\ pc[p] = "done" /\ result[p] = "ok"
        /\ r.id = <<p, 1>>
        /\ r.availability = AvailabilityString(Available)
        /\ \E t \in Times \ {r.hour_time} :
             InitialRow(t, TrainingScheduled) \in trainer_hours

\* C7: an UpdateHour call on a timestamp whose row a previous call has
\* created reads that row and does not create a second one.
C7_SecondCallUsesRow ==
    [][\A p \in Procs :
         (pc[p] = "begun" /\ pc'[p] # "begun" /\ result'[p] # "ErrConnectionFailed"
          /\ RowsAt(trainer_hours, hourTime(p)) # {})
         => /\ pc'[p] \in {"applied", "done"}
            /\ pc'[p] = "applied" => dbHour'[p] = RowsAt(trainer_hours, hourTime(p))
            /\ ins'[p] = {}
            /\ Cardinality(RowsAt(trainer_hours', hourTime(p))) = 1]_vars

\* the first call on a timestamp that had no row has created the row and
\* committed; the call after it, running alone, holds that row
C7_Witness ==
    \E p, q \in Procs :
        /\ pc[p] = "done" /\ result[p] = "ok"
        /\ pc[q] = "applied" /\ ins[q] = {}
        /\ \E r \in dbHour[q] :
             r.id = <<p, 1>> /\ r.hour_time = hourTime(q) /\ r \in trainer_hours
        /\ Cardinality(RowsAt(trainer_hours, hourTime(q))) = 1

(* ===================== claims: training repository ===================== *)
\* the step of caller p is a successful tx.Commit of UpdateTraining
TrainingCommitStep(p) ==
    trPc[p] = "updated" /\ trPc'[p] = "done" /\ trResult'[p] = "ok"

HasProposal(row) == row.proposed_new_time # NULL /\ row.move_proposed_by # NULL

\* C8: concurrent UpdateTraining calls on one training lose no update: when
\* a reschedule proposal commits on a training whose Cancel has committed,
\* the stored row stays canceled and carries the proposal; when a Cancel
\* commits on a training whose stored row carries a proposal, the row is
\* canceled and keeps that proposal.
C8_NoLostUpdate ==
    [][\A p \in Procs :
         TrainingCommitStep(p) =>
            \A r \in trainings_trainings : \A n \in trainings_trainings' :
              /\ \A tr \in updatedTr[p] :
                   (trKind[p] = CmdRequestReschedule /\ r.canceled
                    /\ tr.proposedNewTime # ZeroTime)
                   => /\ n.canceled
                      /\ n.proposed_new_time = Value(tr.proposedNewTime)
                      /\ n.move_proposed_by = Value(tr.moveProposedBy)
              /\ (trKind[p] = CmdCancel /\ HasProposal(r))
                 => /\ n.canceled
                    /\ n.proposed_new_time = r.proposed_new_time
                    /\ n.move_proposed_by = r.move_proposed_by]_vars

\* C9: proposedNewTime and moveProposedBy are both set or both unset, in
\* every training a transition function has returned and in every stored
\* row.
C9_ProposalPaired ==
    /\ \A p \in Procs : \A tr \in updatedTr[p] :
         (tr.proposedNewTime = ZeroTime) <=> (tr.moveProposedBy = ZeroUserType)
    /\ \A r \in trainings_trainings :
         (r.proposed_new_time = NULL) <=> (r.move_proposed_by = NULL)

\* C10: when UpdateTraining commits, a read of the stored row gives the
\* notes, proposedNewTime, moveProposedBy and canceled of the training the
\* transition function returned (so both proposal fields are cleared after
\* a committed ApproveReschedule or RejectReschedule).
C10_StoredEqualsReturned ==
    [][\A p \in Procs :
         TrainingCommitStep(p) =>
            \A tr \in updatedTr[p] :
              \A r \in GetTraining(trainings_trainings', tr.uuid) :
                LET read == unmarshalTraining(r)
                IN /\ read.notes = tr.notes
                   /\ read.proposedNewTime = tr.proposedNewTime
                   /\ read.moveProposedBy = tr.moveProposedBy
                   /\ read.canceled = tr.canceled]_vars

\* C13: the stored canceled flag is monotonic: no committed UpdateTraining
\* call, concurrent ones included, takes a stored training from canceled
\* back to not canceled.
C13_CanceledMonotonic ==
    [][\A r \in trainings_trainings : \A n \in trainings_trainings' :
         (n.id = r.id /\ r.canceled) => n.canceled]_vars

\* the stored rows of the training UpdateTraining is called for
StoredAt(rows, id) == {r \in rows : r.id = id}

\* the errors the closures passed to UpdateTraining return
UpdateFnErrors == {"ErrTrainingAlreadyCanceled", "ErrNoRescheduleRequested",
                   "ErrSameUserTypeApproval", "update-notes-failed",
                   "reschedule-training-failed", "move-training-failed"}

\* the step of caller p has called updateFn
UpdateFnInvoked(p) ==
    \/ trPc'[p] = "applied"
    \/ trPc'[p] = "done" /\ trResult'[p] \in UpdateFnErrors

\* the step of caller p has ended the call and has written nothing
EndedUnwritten(p) ==
    /\ trPc'[p] = "done"
    /\ updatedTr'[p] = {}
    /\ trUpd'[p] = {}
    /\ trainings_trainings' = trainings_trainings

C14_WitnessNotFound ==
    \E p \in Procs :
        /\ trResult[p] = "NotFoundError"
        /\ trainings_trainings = {}

(* ======================= claims: Training aggregate ==================== *)
\* the methods of Training that change it, NewTraining and UpdateNotes aside
Mutators == {"Cancel", "RescheduleTraining", "ProposeReschedule",
             "ApproveReschedule", "RejectReschedule"}

\* C11: ApproveReschedule on a training with a pending proposal, called by
\* the role that proposed it, fails with ErrSameUserTypeApproval and leaves
\* the time and the proposal as they were; called by the other role it
\* succeeds, sets time to the proposed time and clears both proposal fields.
C11_ApproveByOtherRole ==
    (call.op = "ApproveReschedule" /\ IsRescheduleProposed(call.before)) =>
        IF call.userType = call.before.moveProposedBy
        THEN /\ call.err = "ErrSameUserTypeApproval"
             /\ training.time = call.before.time
             /\ training.proposedNewTime = call.before.proposedNewTime
             /\ training.moveProposedBy = call.before.moveProposedBy
        ELSE /\ call.err = "nil"
             /\ training.time = call.before.proposedNewTime
             /\ training.proposedNewTime = ZeroTime
             /\ training.moveProposedBy = ZeroUserType

\* the other role has approved a proposal that moves the training
C11_Witness ==
    /\ call.op = "ApproveReschedule"
    /\ IsRescheduleProposed(call.before)
    /\ call.userType # call.before.moveProposedBy
    /\ call.err = "nil"
    /\ training.time # call.before.time

\* the proposing role has tried to approve its own proposal
C11_WitnessSameRole ==
    /\ call.op = "ApproveReschedule"
    /\ IsRescheduleProposed(call.before)
    /\ call.userType = call.before.moveProposedBy
    /\ call.err = "ErrSameUserTypeApproval"

\* C12: a canceled training is terminal: a mutator called on it (Cancel,
\* RescheduleTraining, ProposeReschedule, ApproveReschedule,
\* RejectReschedule) fails and leaves the training as it was.
C12_CanceledIsTerminal ==
    (call.op \in Mutators /\ call.before.canceled) =>
        /\ call.err # "nil"
        /\ training = call.before

\* the part of C12 the code keeps: a second Cancel fails and changes nothing
C12_SecondCancelFails ==
    (call.op = "Cancel" /\ call.before.canceled) =>
        /\ call.err = "ErrTrainingAlreadyCanceled"
        /\ training = call.before

(* ======================= claims: command handlers ====================== *)
\* the availability stored for hour t (NotAvailable when it has no row)
StoredAvailability(rows, t) ==
    IF RowsAt(rows, t) = {} THEN NotAvailable
    ELSE NewAvailabilityFromString((CHOOSE r \in RowsAt(rows, t) : TRUE).availability)

BalanceOk == Rpc("UpdateTrainingBalance", "nil")

\* C15: ScheduleTraining persists the training, then decrements the user's
\* balance by exactly 1, then calls the trainer service's ScheduleTraining
\* for the training's time; an effect is applied only after the earlier
\* ones succeeded, and a successful return has applied each exactly once.
C15_ScheduleEffectsInOrder ==
    [][\A p \in Procs :
         /\ (appPc[p] = "new" /\ appPc'[p] = "added") =>
               /\ \E tr \in appTr'[p] :
                    /\ StoredAt(trainings_trainings, tr.uuid) = {}
                    /\ trainings_trainings' = trainings_trainings \cup {CreateTraining(tr)}
               /\ rpc'[p] = <<>>
               /\ users_users' = users_users
               /\ trainer_hours' = trainer_hours
         /\ (appPc[p] = "new" /\ appPc'[p] = "done") =>
               /\ appResult'[p] # "ok"
               /\ rpc'[p] = <<>>
               /\ UNCHANGED <<trainings_trainings, users_users, trainer_hours>>
         /\ (appPc[p] = "added" /\ appPc'[p] = "debited") =>
               /\ \E tr \in appTr[p] :
                    /\ StoredAt(trainings_trainings, tr.uuid) # {}
                    /\ users_users' =
                         [users_users EXCEPT ![tr.userUUID] = users_users[tr.userUUID] - 1]
               /\ rpc'[p] = <<BalanceOk>>
               /\ UNCHANGED <<trainings_trainings, trainer_hours>>
         /\ (appPc[p] = "added" /\ appPc'[p] = "done") =>
               /\ appResult'[p] # "ok"
               /\ Len(rpc'[p]) = 1 /\ rpc'[p][1].err # "nil"
               /\ UNCHANGED <<trainings_trainings, users_users, trainer_hours>>
         /\ (appPc[p] = "debited" /\ appPc'[p] = "done") =>
               /\ \E tr \in appTr[p] :
                    IF appResult'[p] = "ok"
                    THEN /\ rpc'[p] = <<BalanceOk, Rpc("ScheduleTraining", "nil")>>
                         /\ StoredAvailability(trainer_hours, tr.time) = Available
                         /\ StoredAvailability(trainer_hours', tr.time) = TrainingScheduled
                         /\ \A t \in Times \ {tr.time} :
                              StoredAvailability(trainer_hours', t) =
                                 StoredAvailability(trainer_hours, t)
                    ELSE /\ Len(rpc'[p]) = 2 /\ rpc'[p][2].err # "nil"
                         /\ trainer_hours' = trainer_hours
               /\ UNCHANGED <<trainings_trainings, users_users>>]_vars

\* a ScheduleTraining command has returned nil
C15_Witness ==
    \E p \in Procs :
        /\ appResult[p] = "ok"
        /\ rpc[p] = <<BalanceOk, Rpc("ScheduleTraining", "nil")>>
        /\ \E r \in StoredAt(trainings_trainings, ScheduleUUID(p)) :
             /\ StoredAvailability(trainer_hours, r.training_time) = TrainingScheduled
             /\ users_users[r.user_id] < InitialBalance

\* the callers whose command has decremented the balance of user id
Debited(id) ==
    {q \in Procs : /\ rpc[q] # <<>> /\ rpc[q][1] = BalanceOk
                   /\ \E r \in StoredAt(trainings_trainings, ScheduleUUID(q)) :
                        r.user_id = id}

\* C16: ScheduleTraining does not compensate: when the balance update or
\* the hour step has failed after the training was persisted, the command
\* has returned an error, the training row is still stored and not
\* canceled, and when only the hour step failed the balance is still
\* decremented.
C16_NoCompensation ==
    \A p \in Procs :
        (appPc[p] = "done" /\ rpc[p] # <<>> /\ rpc[p][Len(rpc[p])].err # "nil"
           /\ rpc[p][1].call = "UpdateTrainingBalance") =>
            /\ appResult[p] \in {"unable to change trainings balance",
                                 "unable to schedule training"}
            /\ \E r \in StoredAt(trainings_trainings, ScheduleUUID(p)) :
                 /\ ~r.canceled
                 /\ (appResult[p] = "unable to schedule training") => p \in Debited(r.user_id)
                 /\ users_users[r.user_id] = InitialBalance - Cardinality(Debited(r.user_id))

\* the hour step of a ScheduleTraining command has failed: its training is
\* stored and its user's balance is one lower
C16_Witness ==
    \E p \in Procs :
        /\ appResult[p] = "unable to schedule training"
        /\ \E r \in StoredAt(trainings_trainings, ScheduleUUID(p)) :
             /\ ~r.canceled
             /\ users_users[r.user_id] = InitialBalance - 1

\* no command is in progress
Quiescent ==
    \A p \in Procs : appPc[p] \in {"new", "done"} /\ trPc[p] \in {"new", "done"}

\* C17: whenever no command is in progress, the hour at T is
\* TrainingScheduled exactly when a non-canceled training with time T is
\* stored, whatever commands have run (failed ones included).
C17_HourScheduledIffTraining ==
    Quiescent =>
        \A t \in Times :
            (StoredAvailability(trainer_hours, t) = TrainingScheduled)
               <=> (\E r \in trainings_trainings : ~r.canceled /\ r.training_time = t)

\* the part of C17 that does not rest on failed commands: the same, when
\* every command that has run has returned nil
C17_AfterSuccessfulCommands ==
    (Quiescent /\ \A p \in Procs : appResult[p] \in {"none", "ok"}
                                    /\ trResult[p] \in {"none", "ok"}) =>
        \A t \in Times :
            (StoredAvailability(trainer_hours, t) = TrainingScheduled)
               <=> (\E r \in trainings_trainings : ~r.canceled /\ r.training_time = t)

\* C18: after a successful reschedule of a training from hour H to hour H2
\* the stored training's time is H2, hour H is Available and hour H2 is
\* TrainingScheduled.
C18_RescheduleMovesTraining ==
    [][\A p \in Procs :
         (TrainingCommitStep(p) /\ trKind[p] = CmdReschedule) =>
            \A tr \in updatedTr[p] :
              \A r \in StoredAt(trainings_trainings, tr.uuid) :
                \A n \in StoredAt(trainings_trainings', tr.uuid) :
                  /\ n.training_time = tr.time
                  /\ StoredAvailability(trainer_hours', tr.time) = TrainingScheduled
                  /\ r.training_time # tr.time =>
                       StoredAvailability(trainer_hours', r.training_time) = Available]_vars

\* C19: when trainerService.MoveTraining fails inside RescheduleTraining,
\* the transaction of UpdateTraining is aborted: the command returns the
\* error and the stored training is as it was before the command.
C19_MoveFailureAborts ==
    [][\A p \in Procs :
         (/\ Len(rpc'[p]) = Len(rpc[p]) + 1
          /\ rpc'[p][Len(rpc'[p])].call = "MoveTraining"
          /\ rpc'[p][Len(rpc'[p])].err # "nil") =>
            /\ trPc'[p] = "done"
            /\ trResult'[p] = "move-training-failed"
            /\ updatedTr'[p] = {}
            /\ trUpd'[p] = {}
            /\ trainings_trainings' = trainings_trainings]_vars

\* a RescheduleTraining command has failed because the trainer service
\* refused to move the training
C19_Witness ==
    \E p \in Procs :
        /\ trResult[p] = "move-training-failed"
        /\ rpc[p] = <<Rpc("MoveTraining", "unable to schedule training")>>
        /\ \E r \in StoredAt(trainings_trainings, TrainingUUID) :
             StoredAvailability(trainer_hours, r.training_time) = TrainingScheduled

(* ======================= claims: users context ========================= *)
RECURSIVE SumLo(_, _)
\* the sum of the low parts of the amounts of the calls in S, counted as
\* often as bag B holds them
SumLo(S, B) ==
    IF S = {} THEN 0
    ELSE LET e == CHOOSE x \in S : TRUE
         IN B[e] * e.lo + SumLo(S \ {e}, B)

RECURSIVE SumHi(_, _)
SumHi(S, B) ==
    IF S = {} THEN 0
    ELSE LET e == CHOOSE x \in S : TRUE
         IN B[e] * e.hi + SumHi(S \ {e}, B)

\* the calls for user id that succeeded
Succeeded(id) == {e \in BagToSet(balanceLog[id]) : e.err = "nil"}

\* the stored balance (an INTEGER, so below 2^31 in size) equals the initial
\* balance plus the sum hi * 2^32 + lo of the amounts of the calls that
\* succeeded
BalanceIsInitialPlusSum(id) ==
    /\ SumHi(Succeeded(id), balanceLog[id]) = 0
    /\ users_users[id] = InitialBalance + SumLo(Succeeded(id), balanceLog[id])

C21_BalanceNeverNegative ==
    \A id \in AttendeeIds : users_users[id] >= 0

\* a ScheduleTraining command has returned nil for a user whose balance was
\* 0 when the command debited it
C21_BookedWithoutCredit ==
    \E p \in Procs :
        /\ appResult[p] = "ok"
        /\ \E id \in AttendeeIds : users_users[id] < 0

(* ======================= claims: component test ======================== *)
\* the value of Available the test expects after each command
ExpectedAvailable == <<FALSE, TRUE, FALSE>>

\* C22: starting from a timestamp with no hour row, the commands
\* MakeHourUnavailable, MakeHourAvailable, MakeHourUnavailable succeed at
\* every step (no command is rejected; a command fails only when storage
\* fails), and after each step the hour is in the available hours with
\* Available equal to false, then true, then false.
C22_UnavailableAvailableUnavailable ==
    \A k \in 1..Len(seen) :
        /\ seen[k].result \in {"pending", "ok", "ErrConnectionFailed"}
        /\ seen[k].result = "ok" =>
              seen[k].found = {[available |-> ExpectedAvailable[k],
                                hasTrainingScheduled |-> FALSE,
                                hour |-> TestHour]}

\* the three commands have succeeded and the client has looked at the hour
\* after each of them
C22_Witness ==
    /\ Len(seen) = Len(TestScript)
    /\ \A k \in 1..Len(seen) : seen[k].result = "ok" /\ seen[k].found # {}

(* ======================= claims: trainings read model ================== *)
\* the ids of the trainings listed for a user
ListedFor(rows, userUUID) == {t.uuid : t \in FindTrainingsForUser(rows, userUUID)}

\* C23: the trainings listed for a user are that user's non-canceled
\* trainings, and a training that has been canceled no longer appears:
\* a stored training that is not in its user's list is not in it after any
\* step either.
C23_CanceledStaysUnlisted ==
    [][\A r \in trainings_trainings :
         r.id \notin ListedFor(trainings_trainings, r.user_id)
            => r.id \notin ListedFor(trainings_trainings', r.user_id)]_vars

\* a ScheduleTraining command has stored a training and the training is in
\* the list of its user, next to the training the user had before
C23_ListedAfterSchedule ==
    \E p \in Procs :
        /\ appResult[p] = "ok"
        /\ {TrainingUUID, ScheduleUUID(p)} \subseteq ListedFor(trainings_trainings, OwnerUUID)

(* ======================= claims: error kinds =========================== *)
\* the error kind of the error Handle returns in a step in which caller p's
\* command fails; result holds the error UpdateHour has returned
ReturnedErrorType(p) == HandleError(cmd[p].kind, result'[p]).errorType

\* C24: the command handlers of the trainer context do not change the error
\* kind: a command that fails because the domain rejected the transition
\* returns a client-fault kind (IncorrectInput), a command that fails
\* because of a storage or connectivity failure returns an infrastructure
\* kind (Unknown).
C24_ErrorKindKept ==
    [][\A p \in Procs :
         ErrorStep(p) =>
            /\ result'[p] \in DomainErrors
                  => ReturnedErrorType(p) = ErrorTypeIncorrectInput
            /\ result'[p] = "ErrConnectionFailed"
                  => ReturnedErrorType(p) = ErrorTypeUnknown]_vars

\* what holds instead: the error kind depends on the command only
C24_KindByCommand ==
    [][\A p \in Procs :
         ErrorStep(p) =>
            ReturnedErrorType(p) = IF cmd[p].kind = CmdScheduleTraining
                                   THEN ErrorTypeUnknown
                                   ELSE ErrorTypeIncorrectInput]_vars

(* ================== claims: reschedule without a proposal ============== *)
ProposalFields == {"proposedNewTime", "moveProposedBy"}

\* C25: ApproveReschedule and RejectReschedule on a training with no
\* pending proposal both fail with ErrNoRescheduleRequested and leave the
\* training unchanged; RejectReschedule on a training with a pending
\* proposal clears the two proposal fields and changes nothing else (the
\* time is unchanged).
C25_NoProposalNoChange ==
    /\ (/\ call.op \in {"ApproveReschedule", "RejectReschedule"}
        /\ ~IsRescheduleProposed(call.before))
          => /\ call.err = "ErrNoRescheduleRequested"
             /\ training = call.before
    /\ (call.op = "RejectReschedule" /\ IsRescheduleProposed(call.before))
          => /\ call.err = "nil"
             /\ training.proposedNewTime = ZeroTime
             /\ training.moveProposedBy = ZeroUserType
             /\ \A f \in DOMAIN training \ ProposalFields :
                   training[f] = call.before[f]

\* a pending proposal for another time has been rejected
C25_Witness ==
    /\ call.op = "RejectReschedule"
    /\ IsRescheduleProposed(call.before)
    /\ call.before.proposedNewTime # call.before.time
    /\ call.err = "nil"

\* ApproveReschedule has been called on a training whose proposal names a
\* proposer and no time
C25_WitnessNoProposal ==
    /\ call.op = "ApproveReschedule"
    /\ call.before.moveProposedBy # ZeroUserType
    /\ ~IsRescheduleProposed(call.before)
    /\ call.err = "ErrNoRescheduleRequested"

(* ======================= claims: locks and progress ==================== *)
\* caller p is inside an UpdateHour call
InUpdateHour(p) == pc[p] \in {"begun", "notfound", "applied", "updated"}

\* caller p's next statement waits for a lock another transaction holds
WaitsForLock(p) ==
    \/ pc[p] = "notfound" /\ InsertWaits(p, hourTime(p))
    \/ pc[p] = "applied" /\ \E r \in dbHour[p] : UpdateWaits(p, r.id)

\* C26: every UpdateHour call ends its transaction on every path, so no
\* lock on an hour row outlives the call, and under fair scheduling every
\* caller waiting on the same hour row eventually proceeds and every
\* UpdateHour call eventually returns.
C26_EveryCallReturns ==
    /\ [](\A p \in Procs : ~InUpdateHour(p) => (ins[p] = {} /\ upd[p] = {}))
    /\ \A p \in Procs : WaitsForLock(p) ~> ~WaitsForLock(p)
    /\ \A p \in Procs : InUpdateHour(p) ~> (pc[p] = "done")

\* a caller waits for the row lock of a caller that has written the row
\* and not committed yet
C26_Witness ==
    \E p \in Procs, q \in Procs :
        /\ WaitsForLock(p)
        /\ pc[p] = "applied"
        /\ pc[q] = "updated"
        /\ upd[q] # {}

\* a caller waits to insert the hour another caller has inserted and not
\* committed yet
C26_WitnessInsert ==
    \E p \in Procs : WaitsForLock(p) /\ pc[p] = "notfound"

(* ======================= claims: first write to an hour ================ *)
\* the callers whose transaction holds an uncommitted insert of hour t
InsertedBy(t) == {p \in Procs : \E r \in ins[p] : r.hour_time = t}

RescheduleEnds(p, err) == trResult[p] = "none" /\ trResult'[p] = err

\* the step records a call of caller p to trainerService.MoveTraining
MoveTrainingCalled(p) ==
    /\ Len(rpc'[p]) = Len(rpc[p]) + 1
    /\ rpc'[p][Len(rpc'[p])].call = "MoveTraining"

\* C28 as stated: within the guarded update the command first calls the
\* trainer service to move the hour reservation and only then applies the
\* domain RescheduleTraining transition, so a command whose transition is
\* rejected has called the trainer service.
C28_MoveBeforeTransition ==
    [][\A p \in Procs :
         RescheduleEnds(p, "reschedule-training-failed") => MoveTrainingCalled(p)]_vars

\* C28: within the guarded update the command first applies the domain
\* transitions (UpdateNotes, RescheduleTraining) and only then calls the
\* trainer service to move the hour reservation: a command whose transition
\* is rejected has not called the trainer service and has left the hours as
\* they were, and a command that ends with the move error has called it.
C28_TransitionBeforeMove ==
    [][\A p \in Procs :
         /\ (\/ RescheduleEnds(p, "reschedule-training-failed")
             \/ RescheduleEnds(p, "update-notes-failed"))
               => (rpc'[p] = rpc[p] /\ trainer_hours' = trainer_hours)
         /\ RescheduleEnds(p, "move-training-failed")
               => (MoveTrainingCalled(p) /\ rpc'[p][Len(rpc'[p])].err # "nil")
         /\ MoveTrainingCalled(p)
               => \/ RescheduleEnds(p, "move-training-failed")
                  \/ trPc'[p] = "applied" /\ trKind'[p] = CmdReschedule]_vars

\* a RescheduleTraining command has been rejected by the domain transition
\* while the hour of the training is still the one that is booked
C28_Witness ==
    \E p \in Procs :
        /\ trResult[p] = "reschedule-training-failed"
        /\ rpc[p] = <<>>
        /\ \E r \in trainings_trainings :
              StoredAvailability(trainer_hours, r.training_time) = TrainingScheduled

(* ======================= claims: batch hour commands =================== *)
BatchKinds == {CmdMakeHoursAvailable, CmdMakeHoursUnavailable}

\* C29: MakeHoursAvailable and MakeHoursUnavailable process the hours of a
\* command in the given order with one UpdateHour transaction per hour and
\* stop at the first failure: the k-th transaction begins with no write
\* pending and commits the k-th hour of the list only; a failure changes no
\* committed row, so the hours before the failing one stay updated and the
\* failing hour is unchanged; the command then returns the error and takes
\* no step for the later hours.
C29_BatchStopsAtFirstFailure ==
    [][\A p \in Procs :
         /\ (pc'[p] = "begun" /\ pc[p] # "begun")
               => /\ idx'[p] = idx[p] + 1
                  /\ ins'[p] = {} /\ upd'[p] = {}
                  /\ pc[p] \in {"new", "updated"}
         /\ (cmd[p].kind \in BatchKinds /\ CommitStep(p))
               => LET t == cmd[p].hours[idx[p]]
                  IN /\ \E r \in trainer_hours' :
                          /\ RowsAt(trainer_hours', t) = {r}
                          /\ r.availability = AvailabilityString(Target(cmd[p].kind))
                     /\ \A u \in Times \ {t} :
                          RowsAt(trainer_hours', u) = RowsAt(trainer_hours, u)
         /\ (cmd[p].kind \in BatchKinds /\ pc'[p] # pc[p] /\ ~CommitStep(p))
               => trainer_hours' = trainer_hours
         /\ (cmd[p].kind \in BatchKinds /\ ErrorStep(p))
               => /\ idx'[p] = 0
                  /\ cmd'[p] = NoCommand
                  /\ trainer_hours' = trainer_hours
         /\ pc[p] = "done" => (pc'[p] = "done" /\ result'[p] = result[p])]_vars

\* a batch command has committed its first hour on a row of its own and has
\* failed on its second hour, which keeps its scheduled training
C29_Witness ==
    \E p \in Procs, t \in BatchHours, u \in BatchHours :
        /\ result[p] = "ErrTrainingScheduled"
        /\ \E r \in RowsAt(trainer_hours, t) : r.id = <<p, 1>>
        /\ RowsAt(trainer_hours, u) = {InitialRow(u, TrainingScheduled)}

(* ======================= claims: deadlock freedom ====================== *)
\* caller q's open transaction holds a lock: an uncommitted insert or
\* update
Holds(q) == ins[q] # {} \/ upd[q] # {}

\* the hours of the rows caller p's open transaction has read or written
TxHours(p) ==
    {r.hour_time : r \in dbHour[p] \cup ins[p]}
    \cup {r.hour_time : r \in {x \in trainer_hours : \E u \in upd[p] : u.id = x.id}}

\* C30: no UpdateHour transaction reads or writes more than one hour row,
\* and a batch hour command holds no transaction open across two hours, so
\* concurrent MakeHoursAvailable, MakeHoursUnavailable, ScheduleTraining and
\* CancelTraining commands over overlapping hours in any order never reach
\* a deadlock: whenever a call waits for a lock, some holder of a lock is
\* not waiting.
C30_NoDeadlock ==
    /\ \A p \in Procs : InUpdateHour(p) => TxHours(p) \subseteq {hourTime(p)}
    /\ \A p \in Procs : pc[p] \in {"new", "begun", "done"} => ~Holds(p)
    /\ (\E p \in Procs : WaitsForLock(p))
          => \E q \in Procs : Holds(q) /\ ~WaitsForLock(q)

\* two batch commands list the same two hours in opposite orders, and one
\* of them waits for the row the other one has written
C30_Witness ==
    \E p \in Procs, q \in Procs :
        /\ Len(cmd[p].hours) = 2
        /\ Len(cmd[q].hours) = 2
        /\ cmd[p].hours # cmd[q].hours
        /\ hourTime(p) = hourTime(q)
        /\ WaitsForLock(p)
        /\ Holds(q)

TypeOK ==
    /\ trainer_hours \subseteq HourRows
    /\ \A p \in Procs : Cardinality(dbHour[p]) <= 1 /\ Cardinality(ins[p]) <= 1
                        /\ Cardinality(upd[p]) <= 1
    /\ Cardinality(trainings_trainings) <= 1
    /\ \A p \in Procs : Cardinality(updatedTr[p]) <= 1 /\ Cardinality(trUpd[p]) <= 1
====
